---- MODULE Spec2Model ----
(***************************************************************************)
(* Model of app.py, the Pak Buy Pro title-cleaning server: the regex       *)
(* cleaner, the Gemini cleaner with its SIGALRM timeout, the lru_cache in  *)
(* front of it, and the /clean-title, /clean-batch and /health handlers.   *)
(*                                                                         *)
(* A Python str is a tuple of characters (one-character strings); the     *)
(* non-ASCII glyphs of the garbage patterns are the characters "RUPEE",    *)
(* "STAR", "BSTAR", "CHECK", "HCHECK" and "BULLET".  An optional value is  *)
(* a tuple of length 0 (None) or 1 (the value).                            *)
(***************************************************************************)
EXTENDS Integers, Sequences, FiniteSets, TLC

(***************************************************************************)
(* Characters and character classes of Python's re module.                 *)
(***************************************************************************)
UpperCase ==
  <<"A","B","C","D","E","F","G","H","I","J","K","L","M",
    "N","O","P","Q","R","S","T","U","V","W","X","Y","Z">>

LowerCase ==
  <<"a","b","c","d","e","f","g","h","i","j","k","l","m",
    "n","o","p","q","r","s","t","u","v","w","x","y","z">>

Range(s) == { s[i] : i \in 1..Len(s) }

\* re.IGNORECASE compares characters by their lower case
Lower(c) ==
  IF c \in Range(UpperCase)
    THEN LowerCase[CHOOSE i \in 1..Len(UpperCase) : UpperCase[i] = c]
    ELSE c

Digits == {"0","1","2","3","4","5","6","7","8","9"}

Letters == Range(LowerCase)

\* [A-Za-z0-9], lower-cased
AlNum == Letters \cup Digits

\* \s
WhiteSpace == {" ", "\t", "\n"}

\* \w
WordChars == AlNum \cup {"_"}

(***************************************************************************)
(* Regular expressions as trees, and Python's backtracking matcher: M      *)
(* returns the match states reachable from st, in the order the matcher    *)
(* tries them (greedy: longest first, lazy: shortest first).  A match      *)
(* state is the position of the next character and the spans of the        *)
(* capture groups (<<0, 0>>: the group did not take part).                 *)
(***************************************************************************)
Cls(s) == [t |-> "cls", s |-> s]

NotCls(s) == [t |-> "ncls", s |-> s]

Cat(rs) == [t |-> "cat", rs |-> rs]

Alt(rs) == [t |-> "alt", rs |-> rs]

Star(r) == [t |-> "star", r |-> r]

Plus(r) == Cat(<<r, Star(r)>>)

LazyStar(r) == [t |-> "lazystar", r |-> r]

LazyPlus(r) == Cat(<<r, LazyStar(r)>>)

Opt(r) == [t |-> "opt", r |-> r]

Grp(n, r) == [t |-> "grp", n |-> n, r |-> r]

WordBoundary == [t |-> "wb"]

EndOfString == [t |-> "eos"]

AnyChar == NotCls({"\n"})

\* a literal word, one character class per character
Lit(w) == Cat([i \in 1..Len(w) |-> Cls({Lower(w[i])})])

NoGroups == [n \in 1..4 |-> <<0, 0>>]

\* whether the character at position p of str is in the class r
InCls(r, str, p) ==
  /\ p >= 1
  /\ p <= Len(str)
  /\ IF r.t = "cls" THEN Lower(str[p]) \in r.s ELSE Lower(str[p]) \notin r.s

\* how many characters from position p on are in the class r
RunLength(r, str, p) ==
  CHOOSE n \in 0..(Len(str) + 1 - p) :
    /\ \A j \in p..(p + n - 1) : InCls(r, str, j)
    /\ ~InCls(r, str, p + n)

\* F(v), with v evaluated once: an operator's argument is an expression,
\* evaluated again wherever the operator uses it
ByValue(F(_), v) == CHOOSE out \in { F(x) : x \in {v} } : TRUE

\* the concatenation of parts[lo..hi]
RECURSIVE Flatten(_, _, _)
Flatten(parts, lo, hi) ==
  IF lo > hi THEN <<>>
  ELSE IF lo = hi THEN parts[lo]
  ELSE LET mid == (lo + hi) \div 2
       IN  Flatten(parts, lo, mid) \o Flatten(parts, mid + 1, hi)

RECURSIVE M(_, _, _)
RECURSIVE MCat(_, _, _, _)

MCat(rs, k, str, st) ==
  IF k > Len(rs) THEN <<st>>
  ELSE ByValue(LAMBDA firsts :
         ByValue(LAMBDA rests : Flatten(rests, 1, Len(rests)),
                 [i \in 1..Len(firsts) |->
                    MCat(rs, k + 1, str, firsts[i])]),
         M(rs[k], str, st))

\* the patterns of this program repeat single character classes only
M(r, str, st) ==
  CASE r.t \in {"cls", "ncls"} ->
         IF InCls(r, str, st.pos)
           THEN <<[st EXCEPT !.pos = @ + 1]>> ELSE <<>>
    [] r.t = "cat" -> MCat(r.rs, 1, str, st)
    [] r.t = "alt" ->
         ByValue(LAMBDA alts : Flatten(alts, 1, Len(alts)),
                 [i \in 1..Len(r.rs) |-> M(r.rs[i], str, st)])
    [] r.t = "star" ->
         ByValue(LAMBDA n :
                   [i \in 1..(n + 1) |-> [st EXCEPT !.pos = @ + n + 1 - i]],
                 RunLength(r.r, str, st.pos))
    [] r.t = "lazystar" ->
         ByValue(LAMBDA n :
                   [i \in 1..(n + 1) |-> [st EXCEPT !.pos = @ + i - 1]],
                 RunLength(r.r, str, st.pos))
    [] r.t = "opt" -> M(r.r, str, st) \o <<st>>
    [] r.t = "grp" ->
         ByValue(LAMBDA inner :
                   [i \in 1..Len(inner) |->
                      [inner[i] EXCEPT !.cap[r.n] = <<st.pos, inner[i].pos>>]],
                 M(r.r, str, st))
    [] r.t = "wb" ->
         LET before == st.pos > 1 /\ Lower(str[st.pos - 1]) \in WordChars
             after  == st.pos <= Len(str) /\ Lower(str[st.pos]) \in WordChars
         IN  IF before # after THEN <<st>> ELSE <<>>
    [] r.t = "eos" -> IF st.pos = Len(str) + 1 THEN <<st>> ELSE <<>>

\* re.search: the first match at the leftmost start >= from, as
\* <<[start, end, cap]>>, or <<>> for no match
Search(r, str, from) ==
  ByValue(LAMBDA at :
            LET starts == { i \in DOMAIN at : at[i] # <<>> }
            IN  IF starts = {} THEN <<>>
                ELSE LET i == CHOOSE x \in starts : \A y \in starts : x <= y
                     IN  <<[start |-> i, end |-> at[i][1].pos,
                            cap |-> at[i][1].cap]>>,
          ByValue(LAMBDA pattern :
                    ByValue(LAMBDA text :
                              [i \in from..(Len(text) + 1) |->
                                 M(pattern, text,
                                   [pos |-> i, cap |-> NoGroups])],
                            str),
                  r))

\* the text of group n of a match, "" for a group that did not take part
Group(str, m, n) ==
  IF m.cap[n] = <<0, 0>> THEN <<>>
  ELSE SubSeq(str, m.cap[n][1], m.cap[n][2] - 1)

\* re.sub(r, repl, str); no pattern of this program matches the empty string
RECURSIVE SubFrom(_, _, _, _)
SubFrom(r, repl, str, from) ==
  ByValue(LAMBDA m :
            IF m = <<>> THEN SubSeq(str, from, Len(str))
            ELSE SubSeq(str, from, m[1].start - 1) \o repl
                   \o SubFrom(r, repl, str, m[1].end),
          Search(r, str, from))

Sub(r, repl, str) == SubFrom(r, repl, str, 1)

\* str.strip()
RECURSIVE LStrip(_)
LStrip(s) == IF s # <<>> /\ Head(s) \in WhiteSpace THEN LStrip(Tail(s)) ELSE s

RECURSIVE RStrip(_)
RStrip(s) ==
  IF s # <<>> /\ s[Len(s)] \in WhiteSpace
    THEN RStrip(SubSeq(s, 1, Len(s) - 1)) ELSE s

Strip(s) == RStrip(LStrip(s))

(***************************************************************************)
(* clean_title_with_regex: the patterns.                                   *)
(***************************************************************************)
S == Cls(WhiteSpace)

D == Cls(Digits)

\* words separated by \s*
RECURSIVE Phrase(_)
Phrase(ws) ==
  IF Len(ws) = 1 THEN Lit(ws[1])
  ELSE Cat(<<Lit(ws[1]), Star(S), Phrase(Tail(ws))>>)

garbage_patterns ==
  << Cat(<<Phrase(<< <<"P","T","A">>, <<"A","p","p","r","o","v","e">> >>),
           Opt(Lit(<<"d">>))>>),
     Phrase(<< <<"O","f","f","i","c","i","a","l">>,
               <<"W","a","r","r","a","n","t","y">> >>),
     Phrase(<< <<"F","a","s","t">>, <<"S","h","i","p","p","i","n","g">> >>),
     Phrase(<< <<"C","a","s","h">>, <<"o","n">>,
               <<"D","e","l","i","v","e","r","y">> >>),
     Phrase(<< <<"F","r","e","e">>, <<"D","e","l","i","v","e","r","y">> >>),
     Cat(<<Lit(<<"I","n","s","t","a","l","l","m","e","n","t">>),
           Opt(Lit(<<"s">>))>>),
     Phrase(<< <<"E","a","s","y">>, <<"P","a","y","m","e","n","t">> >>),
     Lit(<<"O","r","i","g","i","n","a","l">>),
     Lit(<<"A","u","t","h","e","n","t","i","c">>),
     Cat(<<WordBoundary, Lit(<<"N","e","w">>), WordBoundary>>),
     Cat(<<WordBoundary, Lit(<<"S","e","a","l","e","d">>), WordBoundary>>),
     Phrase(<< <<"I","n">>, <<"S","t","o","c","k">> >>),
     Lit(<<"A","v","a","i","l","a","b","l","e">>),
     Phrase(<< <<"L","i","m","i","t","e","d">>, <<"S","t","o","c","k">> >>),
     Phrase(<< <<"H","o","t">>, <<"D","e","a","l">> >>),
     Lit(<<"S","a","l","e">>),
     Lit(<<"D","i","s","c","o","u","n","t">>),
     Cat(<<Plus(D), Cls({"%"}), Star(S), Lit(<<"O","f","f">>)>>),
     Phrase(<< <<"S","p","e","c","i","a","l">>, <<"O","f","f","e","r">> >>),
     Alt(<<Cls({"RUPEE"}),
           Cat(<<Lit(<<"R","s">>), Opt(Cls({"."}))>>),
           Lit(<<"P","K","R">>)>>),
     Plus(Cls({"STAR", "BSTAR", "CHECK", "HCHECK"})),
     Cls({"|"}),
     Cls({"BULLET"}) >>

mobile_brands ==
  << <<"S","a","m","s","u","n","g">>, <<"i","P","h","o","n","e">>,
     <<"X","i","a","o","m","i">>, <<"O","p","p","o">>, <<"V","i","v","o">>,
     <<"R","e","a","l","m","e">>, <<"I","n","f","i","n","i","x">>,
     <<"T","e","c","n","o">>, <<"O","n","e","P","l","u","s">>,
     <<"G","o","o","g","l","e">>, <<"N","o","k","i","a">>,
     <<"H","u","a","w","e","i">>, <<"M","o","t","o","r","o","l","a">> >>

laptop_brands ==
  << <<"H","P">>, <<"D","e","l","l">>, <<"L","e","n","o","v","o">>,
     <<"A","s","u","s">>, <<"A","c","e","r">>, <<"M","S","I">>,
     <<"A","p","p","l","e">>, <<"M","a","c","B","o","o","k">> >>

\* \d+GB
GBToken == Cat(<<Plus(D), Lit(<<"G","B">>)>>)

\* (brand)\s+([A-Z0-9][A-Za-z0-9\s]+?)(?:\s+(\d+GB))?(?:\s+(\d+GB))?
mobile_pattern(brand) ==
  Cat(<<Grp(1, Lit(brand)), Plus(S),
        Grp(2, Cat(<<Cls(AlNum), LazyPlus(Cls(AlNum \cup WhiteSpace))>>)),
        Opt(Cat(<<Plus(S), Grp(3, GBToken)>>)),
        Opt(Cat(<<Plus(S), Grp(4, GBToken)>>))>>)

\* \s+(with|and|for|official|factory).*$
model_junk ==
  Cat(<<Plus(S),
        Alt(<<Lit(<<"w","i","t","h">>), Lit(<<"a","n","d">>),
              Lit(<<"f","o","r">>), Lit(<<"o","f","f","i","c","i","a","l">>),
              Lit(<<"f","a","c","t","o","r","y">>)>>),
        Star(AnyChar), EndOfString>>)

\* (brand)\s+([A-Za-z0-9\s]+?)(?:\s+(i[3579]|Ryzen\s*[3579]|M[12]))?
laptop_pattern(brand) ==
  Cat(<<Grp(1, Lit(brand)), Plus(S),
        Grp(2, LazyPlus(Cls(AlNum \cup WhiteSpace))),
        Opt(Cat(<<Plus(S),
                  Grp(3, Alt(<<Cat(<<Lit(<<"i">>), Cls({"3","5","7","9"})>>),
                               Cat(<<Lit(<<"R","y","z","e","n">>), Star(S),
                                     Cls({"3","5","7","9"})>>),
                               Cat(<<Lit(<<"M">>), Cls({"1","2"})>>)>>))>>))>>)

\* (\d+GB)\s*RAM
ram_pattern == Cat(<<Grp(1, GBToken), Star(S), Lit(<<"R","A","M">>)>>)

\* (\d+GB|\d+TB)\s*(?:SSD|HDD|Storage)
storage_pattern ==
  Cat(<<Grp(1, Alt(<<GBToken, Cat(<<Plus(D), Lit(<<"T","B">>)>>)>>)), Star(S),
        Alt(<<Lit(<<"S","S","D">>), Lit(<<"H","D","D">>),
              Lit(<<"S","t","o","r","a","g","e">>)>>)>>)

(***************************************************************************)
(* clean_title_with_regex: the passes.                                     *)
(***************************************************************************)
\* for pattern in garbage_patterns: cleaned = re.sub(pattern, '', cleaned)
RECURSIVE StripGarbage(_, _)
StripGarbage(cleaned, k) ==
  IF k > Len(garbage_patterns) THEN cleaned
  ELSE ByValue(LAMBDA next : StripGarbage(next, k + 1),
               Sub(garbage_patterns[k], <<>>, cleaned))

\* "Clean up whitespace and symbols"
Normalize(cleaned) ==
  ByValue(LAMBDA a :
    ByValue(LAMBDA b :
      ByValue(LAMBDA c : Strip(c),
        Sub(Cat(<<Cls({"("}), Star(NotCls({")"})), Cls({")"})>>), <<>>, b)),
      Sub(Plus(Cls({"|", "BULLET", "-", "_"})), <<" ">>, a)),
    Sub(Plus(S), <<" ">>, cleaned))

\* the mobile loop: the first brand of the list found in cleaned rewrites it
RECURSIVE MobilePass(_, _)
MobilePass(cleaned, k) ==
  IF k > Len(mobile_brands) THEN cleaned
  ELSE ByValue(LAMBDA m :
         IF m = <<>> THEN MobilePass(cleaned, k + 1)
         ELSE LET brand_name == Group(cleaned, m[1], 1)
                  model == Sub(model_junk, <<>>,
                               Strip(Group(cleaned, m[1], 2)))
                  ram == Group(cleaned, m[1], 3)
                  storage == Group(cleaned, m[1], 4)
              IN  Strip(brand_name \o <<" ">> \o model \o <<" ">>
                          \o ram \o <<" ">> \o storage),
         Search(mobile_pattern(mobile_brands[k]), cleaned, 1))

\* the laptop loop, on what the mobile loop left
RECURSIVE LaptopPass(_, _)
LaptopPass(cleaned, k) ==
  IF k > Len(laptop_brands) THEN cleaned
  ELSE ByValue(LAMBDA m :
         IF m = <<>> THEN LaptopPass(cleaned, k + 1)
         ELSE LET brand_name == Group(cleaned, m[1], 1)
                  model == Strip(Group(cleaned, m[1], 2))
                  processor == Group(cleaned, m[1], 3)
                  ram == ByValue(LAMBDA ram_match :
                                   IF ram_match # <<>>
                                     THEN Group(cleaned, ram_match[1], 1)
                                     ELSE <<>>,
                                 Search(ram_pattern, cleaned, 1))
                  storage == ByValue(LAMBDA storage_match :
                                       IF storage_match # <<>>
                                         THEN Group(cleaned,
                                                    storage_match[1], 1)
                                         ELSE <<>>,
                                     Search(storage_pattern, cleaned, 1))
              IN  Strip(brand_name \o <<" ">> \o model \o <<" ">>
                          \o processor \o <<" ">> \o ram \o <<" ">>
                          \o storage),
         Search(laptop_pattern(laptop_brands[k]), cleaned, 1))

clean_title_with_regex(title) ==
  ByValue(LAMBDA stripped :
    ByValue(LAMBDA mobile :
      ByValue(LAMBDA extracted : Strip(Sub(Plus(S), <<" ">>, extracted)),
              LaptopPass(mobile, 1)),
      MobilePass(stripped, 1)),
    Normalize(StripGarbage(title, 1)))

(***************************************************************************)
(* Values and inputs.                                                      *)
(***************************************************************************)
None == <<>>

Some(v) == <<v>>

\* Python truth of an optional str: None and '' are false
Truthy(v) == v # None /\ v[1] # <<>>

\* bounds of the model
MaxRequests == 2

MaxBatch == 2

MaxElapsed == 4

\* lru_cache(maxsize=1000), scaled down so that the cache fills
maxsize == 2

\* signal.alarm(3)
ALARM_SECS == 3

\* data.get('timeout', 3)
DEFAULT_TIMEOUT == 3

TitleEmpty == <<>>

TitleNoise == <<"S","a","l","e">>

TitleMobile ==
  <<"S","a","m","s","u","n","g"," ","A","5"," ","8","G","B"," ",
    "6","4","G","B"," ","N","e","w">>

\* a title that is clean already: brand, model, RAM, storage
TitleCleaned ==
  <<"S","a","m","s","u","n","g"," ","G","a","l","a","x","y"," ","A","1","5",
    " ","8","G","B"," ","2","5","6","G","B">>

Titles == {TitleEmpty, TitleNoise, TitleMobile, TitleCleaned}

\* what response.text may be
RawTexts ==
  { <<"\"","S","a","m","s","u","n","g"," ","A","5","\""," ">>,
    <<"'","'">> }

\* the 'timeout' of a /clean-title request
Budgets == {1, DEFAULT_TIMEOUT}

\* where the process runs its handlers: "main" (main thread, SIGALRM),
\* "worker" (another thread: signal.signal raises ValueError), "absent"
\* (no SIGALRM: the alarm is skipped)
Platforms == {"main", "worker", "absent"}

\* lines 80 and 87: strip, drop both quote characters, strip
PostProcess(text) ==
  Strip(SelectSeq(Strip(text), LAMBDA c : c \notin {"\"", "'"}))


(***************************************************************************)
(* The process: the module globals, the lru_cache of cached_clean_title,   *)
(* the pending SIGALRM alarm, and the last request with its response.      *)
(* regex_of tabulates clean_title_with_regex, a pure function, on the      *)
(* titles of the model: it is computed at the start and never changes.     *)
(***************************************************************************)
VARIABLES AI_ENABLED, platform, cache, hits, misses, alarm, served, last,
          regex_of, calls, now, deadline

vars ==
  <<AI_ENABLED, platform, cache, hits, misses, alarm, served, last, regex_of,
    calls, now, deadline>>

\* the lookups of requests that overlap in time
MaxCalls == 2

\* the clock of the overlapping lookups stops here
MaxTime == 4

Calls == 1..MaxCalls

\* a lookup cached_clean_title(title) of a request: where it is ("idle": not
\* begun; "flight": clean_title_with_ai is running; "done"), when
\* it began and ended, how it ended and what it returned
NoCall ==
  [pc |-> "idle", title |-> <<>>, start |-> 0, end |-> 0, how |-> "none",
   value |-> None]

\* the record of a request: what came in (timeout: the budget of a
\* /clean-title request that reached line 214), what the AI step did (how: "hit",
\* "ok", "timeout", "error" or "disabled"; inv: calls of clean_title_with_ai;
\* ext: calls of model.generate_content; evicted: entries the cache dropped;
\* timed: line 221 was reached; over: elapsed > timeout there; fire: where a
\* pending alarm raised TimeoutError), and the response (status 500: the
\* handler raised)
NoRequest ==
  [op |-> "none", title |-> <<>>, titles |-> <<>>, timeout |-> 0,
   timed |-> FALSE,
   over |-> FALSE, looked |-> FALSE, how |-> "none", raised |-> FALSE,
   value |-> None, inv |-> 0, ext |-> 0, evicted |-> 0, fire |-> "no",
   status |-> 0, success |-> FALSE, original |-> None, cleaned |-> None,
   method |-> "", confidence |-> 0, error |-> FALSE,
   results |-> <<>>, failed |-> {},
   ai_available |-> FALSE, cache_size |-> 0, cache_hits |-> 0,
   cache_misses |-> 0]

\* lines 19-30: the start-up self-test sets AI_ENABLED once
Init ==
  /\ regex_of = [t \in Titles |-> clean_title_with_regex(t)]
  /\ AI_ENABLED \in BOOLEAN
  /\ platform \in Platforms
  /\ cache = <<>>
  /\ hits = 0
  /\ misses = 0
  /\ alarm = FALSE
  /\ served = 0
  /\ last = NoRequest
  /\ calls = [id \in Calls |-> NoCall]
  /\ now = 0
  /\ deadline = None

(***************************************************************************)
(* clean_title_with_ai, given whether an alarm is pending on entry: the    *)
(* ways the call can end.  On "main" signal.alarm(3) arms the alarm (and   *)
(* replaces a pending one); the completion returns a text (the alarm is    *)
(* cancelled), is interrupted by the alarm (TimeoutError, caught), or      *)
(* raises (caught, the alarm stays armed: line 84 is skipped), and then    *)
(* the armed alarm may fire inside the except block, so that TimeoutError  *)
(* leaves the function.                                                    *)
(***************************************************************************)
clean_title_with_ai(title, al) ==
  IF ~AI_ENABLED
    THEN {[kind |-> "return", value |-> None, alarm |-> al, ext |-> 0,
           how |-> "disabled"]}
  ELSE IF platform = "worker"
    THEN {[kind |-> "return", value |-> None, alarm |-> al, ext |-> 0,
           how |-> "error"]}
  ELSE LET armed == platform = "main"
       IN  {[kind |-> "return", value |-> Some(PostProcess(x)),
             alarm |-> IF armed THEN FALSE ELSE al, ext |-> 1, how |-> "ok"]
              : x \in RawTexts}
           \cup {[kind |-> "return", value |-> None,
                  alarm |-> IF armed THEN TRUE ELSE al, ext |-> 1,
                  how |-> "error"]}
           \cup (IF armed
                   THEN {[kind |-> "return", value |-> None, alarm |-> FALSE,
                          ext |-> 1, how |-> "timeout"],
                         [kind |-> "raise", value |-> None, alarm |-> FALSE,
                          ext |-> 1, how |-> "error"]}
                   ELSE {})

\* a faulty variant of CacheIndex that finds no entry
CacheIndex_never(c, title) == 0

(***************************************************************************)
(* functools.lru_cache(maxsize): the entries, least recently used first.   *)
(***************************************************************************)
CacheIndex(c, title) ==
  IF \E i \in 1..Len(c) : c[i].key = title
    THEN CHOOSE i \in 1..Len(c) : c[i].key = title
    ELSE 0

CacheKeys(c) == { c[i].key : i \in 1..Len(c) }

\* a hit moves the entry to the most recent end
CacheTouch(c, i) ==
  SubSeq(c, 1, i - 1) \o SubSeq(c, i + 1, Len(c)) \o <<c[i]>>

\* a faulty variant of CacheInsert that never drops an entry
CacheInsert_unbounded(c, title, result) ==
  c \o <<[key |-> title, result |-> result]>>

\* a full cache drops its least recently used entry
CacheInsert(c, title, result) ==
  LET e == [key |-> title, result |-> result]
  IN  IF Len(c) >= maxsize THEN Tail(c) \o <<e>> ELSE c \o <<e>>

\* a faulty variant of cached_clean_title that keeps only the results that
\* are not None, so that a title whose completion failed is computed again
cached_clean_title_skip_none(c, al, title) ==
  LET i == CacheIndex(c, title)
  IN  IF i # 0
        THEN {[kind |-> "return", value |-> c[i].result,
               cache |-> CacheTouch(c, i), dh |-> 1, dm |-> 0, alarm |-> al,
               inv |-> 0, ext |-> 0, evicted |-> 0, how |-> "hit"]}
        ELSE {[kind |-> o.kind, value |-> o.value,
               cache |-> IF o.kind = "return" /\ o.value # None
                           THEN CacheInsert(c, title, o.value) ELSE c,
               dh |-> 0, dm |-> 1, alarm |-> o.alarm, inv |-> 1,
               ext |-> o.ext,
               evicted |-> IF o.kind = "return" /\ o.value # None
                             THEN Len(c) + 1 - Len(CacheInsert(c, title, o.value))
                             ELSE 0,
               how |-> o.how] : o \in clean_title_with_ai(title, al)}

\* cached_clean_title(title) on the cache c: a hit returns the stored
\* result and counts a hit; a miss is counted, calls clean_title_with_ai
\* and stores whatever it returns (None too); an exception passes through
\* and stores nothing
cached_clean_title(c, al, title) ==
  LET i == CacheIndex(c, title)
  IN  IF i # 0
        THEN {[kind |-> "return", value |-> c[i].result,
               cache |-> CacheTouch(c, i), dh |-> 1, dm |-> 0, alarm |-> al,
               inv |-> 0, ext |-> 0, evicted |-> 0, how |-> "hit"]}
        ELSE {[kind |-> o.kind, value |-> o.value,
               cache |-> IF o.kind = "return"
                           THEN CacheInsert(c, title, o.value) ELSE c,
               dh |-> 0, dm |-> 1, alarm |-> o.alarm, inv |-> 1,
               ext |-> o.ext,
               evicted |-> IF o.kind = "return"
                             THEN Len(c) + 1 - Len(CacheInsert(c, title, o.value))
                             ELSE 0,
               how |-> o.how] : o \in clean_title_with_ai(title, al)}

\* "cached_clean_title(title) if AI_ENABLED else None"
ai_step(c, al, title) ==
  IF AI_ENABLED THEN cached_clean_title(c, al, title)
  ELSE {[kind |-> "return", value |-> None, cache |-> c, dh |-> 0, dm |-> 0,
         alarm |-> al, inv |-> 0, ext |-> 0, evicted |-> 0,
         how |-> "disabled"]}

(***************************************************************************)
(* POST /clean-title.  Python runs a signal handler between two bytecodes  *)
(* of the main thread, so a pending alarm raises TimeoutError wherever the *)
(* handler is: fire says where ("no": not during this request; "entry":    *)
(* before title is bound, lines 202-203; "before_try": lines 204-218;      *)
(* "in_try": inside the inner try after the lookup, lines 220-225; "tail": *)
(* lines 230-250).  elapsed is time.time() - start_time at line 221.  The  *)
(* result is the set of ways the request can end.                          *)
(***************************************************************************)
CleanFires == {"no", "entry", "before_try", "in_try", "tail"}

\* lines 231-240: the regex cleaner's answer
regex_response(r, title) ==
  [r EXCEPT !.status = 200, !.success = TRUE, !.original = Some(title),
            !.cleaned = Some(regex_of[title]), !.method = "regex",
            !.confidence = 75]

\* a faulty variant of ai_response that answers with the regex cleaner's text
ai_response_regex_text(r, title, ai_result) ==
  [r EXCEPT !.status = 200, !.success = TRUE, !.original = Some(title),
            !.cleaned = Some(regex_of[title]), !.method = "ai",
            !.confidence = 95]

\* lines 243-250: the AI's answer
ai_response(r, title, ai_result) ==
  [r EXCEPT !.status = 200, !.success = TRUE, !.original = Some(title),
            !.cleaned = ai_result, !.method = "ai", !.confidence = 95]

\* a faulty variant of plan_b that tests "if ai_result"
plan_b_inverted(r, title, ai_result) ==
  IF Truthy(ai_result)
    THEN [r EXCEPT !.status = 200, !.success = TRUE, !.original = Some(title),
                   !.cleaned = Some(regex_of[title]), !.method = "regex",
                   !.confidence = 75]
    ELSE [r EXCEPT !.status = 200, !.success = TRUE, !.original = Some(title),
                   !.cleaned = ai_result, !.method = "ai", !.confidence = 95]

\* lines 230-250: "if not ai_result" takes the regex cleaner
plan_b(r, title, ai_result) ==
  IF ~Truthy(ai_result) THEN regex_response(r, title)
  ELSE ai_response(r, title, ai_result)

\* a faulty variant of ultimate_fallback that keeps the regex confidence
ultimate_fallback_regex_confidence(r, title) ==
  [r EXCEPT !.status = 200, !.success = TRUE, !.original = Some(title),
            !.cleaned = Some(title), !.method = "none", !.confidence = 75,
            !.error = TRUE]

\* lines 252-262: the outer except answers with the title as it came
ultimate_fallback(r, title) ==
  [r EXCEPT !.status = 200, !.success = TRUE, !.original = Some(title),
            !.cleaned = Some(title), !.method = "none", !.confidence = 50,
            !.error = TRUE]

clean_title_endpoint(title, timeout, elapsed, fire) ==
  LET req == [NoRequest EXCEPT !.op = "clean", !.title = title,
                               !.fire = fire]
      \* lines 216-250, from the outcome o of the AI step
      Finish(o) ==
        LET timed == AI_ENABLED /\ o.kind = "return" /\ fire # "in_try"
            ai_result == IF timed /\ ~(elapsed > timeout)
                           THEN o.value ELSE None
            r == [req EXCEPT !.timeout = timeout,
                             !.looked = AI_ENABLED, !.how = o.how,
                             !.raised = (o.kind = "raise"),
                             !.value = o.value, !.inv = o.inv,
                             !.ext = o.ext, !.evicted = o.evicted,
                             !.timed = timed,
                             !.over = (timed /\ elapsed > timeout)]
        IN  [cache |-> o.cache, hits |-> hits + o.dh,
             misses |-> misses + o.dm,
             alarm |-> IF fire \in {"in_try", "tail"} THEN FALSE
                       ELSE o.alarm,
             last |-> IF fire = "tail" THEN ultimate_fallback(r, title)
                      ELSE plan_b(r, title, ai_result)]
  IN  IF fire = "entry"
        \* the except block reads title, which is unbound: it raises
        THEN {[cache |-> cache, hits |-> hits, misses |-> misses,
               alarm |-> FALSE, last |-> [req EXCEPT !.status = 500]]}
      ELSE IF fire = "before_try"
        THEN {[cache |-> cache, hits |-> hits, misses |-> misses,
               alarm |-> FALSE, last |-> ultimate_fallback(req, title)]}
      ELSE IF title = <<>>
        \* "if not title": 400, 'No title provided'
        THEN {[cache |-> cache, hits |-> hits, misses |-> misses,
               alarm |-> alarm,
               last |-> [req EXCEPT !.status = 400, !.error = TRUE,
                                    !.fire = "no"]]}
      ELSE { Finish(o) :
               o \in { x \in ai_step(cache, alarm, title) :
                         /\ fire = "in_try" => AI_ENABLED /\ x.alarm
                         /\ fire = "tail" => x.alarm
                         /\ x.how = "timeout" => elapsed >= ALARM_SECS } }

CleanTitle ==
  /\ served < MaxRequests
  /\ \E title \in Titles, timeout \in Budgets, elapsed \in 0..MaxElapsed,
        fire \in CleanFires :
       /\ fire \in {"entry", "before_try"} => alarm
       /\ \E r \in clean_title_endpoint(title, timeout, elapsed, fire) :
            /\ cache' = r.cache
            /\ hits' = r.hits
            /\ misses' = r.misses
            /\ alarm' = r.alarm
            /\ last' = r.last
  /\ served' = served + 1
  /\ UNCHANGED <<AI_ENABLED, platform, regex_of, calls, now, deadline>>

(***************************************************************************)
(* POST /clean-batch.  Per title: the pending alarm may fire inside the    *)
(* try (fire "in_try": the bare except runs the regex cleaner) or outside  *)
(* it, lines 272 and 278-283 (fire "outside": the outer except answers     *)
(* 500 and the results so far are dropped).                                *)
(***************************************************************************)
BatchFires == {"no", "in_try", "outside"}

\* one pass of the loop body, from the running state b of the request
BatchItem(b, title, fire) ==
  { [cache |-> o.cache, dh |-> b.dh + o.dh, dm |-> b.dm + o.dm,
     alarm |-> IF fire = "no" THEN o.alarm ELSE FALSE,
     inv |-> b.inv + o.inv, ext |-> b.ext + o.ext,
     evicted |-> b.evicted + o.evicted,
     results |->
       Append(b.results,
              [original |-> title,
               cleaned |-> IF o.kind = "return" /\ fire # "in_try"
                              /\ Truthy(o.value)
                             THEN o.value[1] ELSE regex_of[title]]),
     failed |-> IF o.how \in {"timeout", "error"}
                  THEN b.failed \cup {Len(b.results) + 1} ELSE b.failed,
     aborted |-> fire = "outside"]
    : o \in { x \in ai_step(b.cache, b.alarm, title) :
                fire # "no" => x.alarm } }

RECURSIVE BatchLoop(_, _, _)
BatchLoop(titles, k, b) ==
  IF k > Len(titles) \/ b.aborted THEN {b}
  ELSE UNION { BatchLoop(titles, k + 1, b2) :
                 b2 \in UNION { BatchItem(b, titles[k], f) : f \in BatchFires } }

clean_batch_endpoint(titles, entry) ==
  LET req == [NoRequest EXCEPT !.op = "batch", !.titles = titles]
      b0 == [cache |-> cache, dh |-> 0, dm |-> 0, alarm |-> alarm,
             inv |-> 0, ext |-> 0, evicted |-> 0, results |-> <<>>,
             failed |-> {}, aborted |-> FALSE]
      Finish(b) ==
        [cache |-> b.cache, hits |-> hits + b.dh, misses |-> misses + b.dm,
         alarm |-> b.alarm,
         last |->
           IF b.aborted
             THEN [req EXCEPT !.status = 500, !.error = TRUE,
                              !.fire = "outside", !.inv = b.inv,
                              !.ext = b.ext, !.evicted = b.evicted,
                              !.failed = b.failed]
             ELSE [req EXCEPT !.status = 200, !.success = TRUE,
                              !.results = b.results, !.inv = b.inv,
                              !.ext = b.ext, !.evicted = b.evicted,
                              !.failed = b.failed]]
  IN  IF entry
        \* the alarm fires at lines 268-271: the outer except answers 500
        THEN {[cache |-> cache, hits |-> hits, misses |-> misses,
               alarm |-> FALSE,
               last |-> [req EXCEPT !.status = 500, !.error = TRUE,
                                    !.fire = "entry"]]}
        ELSE { Finish(b) : b \in BatchLoop(titles, 1, b0) }

BatchInputs == UNION { [1..k -> Titles] : k \in 0..MaxBatch }

CleanBatch ==
  /\ served < MaxRequests
  /\ \E titles \in BatchInputs, entry \in BOOLEAN :
       /\ entry => alarm
       /\ \E r \in clean_batch_endpoint(titles, entry) :
            /\ cache' = r.cache
            /\ hits' = r.hits
            /\ misses' = r.misses
            /\ alarm' = r.alarm
            /\ last' = r.last
  /\ served' = served + 1
  /\ UNCHANGED <<AI_ENABLED, platform, regex_of, calls, now, deadline>>

(***************************************************************************)
(* GET /health: cache_info() of the lru_cache.  A pending alarm that fires *)
(* here leaves the handler (nothing catches it).                           *)
(***************************************************************************)
health_check(fire) ==
  LET req == [NoRequest EXCEPT !.op = "health"]
  IN  IF fire THEN [req EXCEPT !.status = 500, !.fire = "entry"]
      ELSE [req EXCEPT !.status = 200, !.ai_available = AI_ENABLED,
                       !.cache_size = Len(cache), !.cache_hits = hits,
                       !.cache_misses = misses]

Health ==
  /\ served < MaxRequests
  /\ \E fire \in BOOLEAN :
       /\ fire => alarm
       /\ last' = health_check(fire)
       /\ alarm' = (alarm /\ ~fire)
  /\ served' = served + 1
  /\ UNCHANGED <<AI_ENABLED, platform, cache, hits, misses, regex_of, calls,
                 now, deadline>>

(***************************************************************************)
(* GET /test: the two cleaners on the sample titles, one after the other.  *)
(* clean_title_with_ai is called directly, not through the lru_cache.  A   *)
(* pending alarm may fire inside the try of a sample before the call       *)
(* (fire "before_call") or after it (fire "in_try"): the bare except       *)
(* answers 'AI failed'; or outside the try, lines 331-339 (fire            *)
(* "outside"), or before the loop (entry): nothing catches it.  The        *)
(* request records the calls it made; the texts of its answer are not      *)
(* kept.                                                                   *)
(***************************************************************************)
NumTestTitles == 4

test_titles == 1..NumTestTitles

TestFires == {"no", "before_call", "in_try", "outside"}

\* lines 323-337: one pass of the loop body, from the running state b
TestItem(b, title, fire) ==
  IF fire = "before_call"
    THEN IF b.alarm THEN {[b EXCEPT !.alarm = FALSE]} ELSE {}
  ELSE IF ~AI_ENABLED
    THEN IF fire = "no" THEN {b}
         ELSE IF b.alarm
           THEN {[b EXCEPT !.alarm = FALSE, !.aborted = (fire = "outside")]}
           ELSE {}
  ELSE { [alarm |-> IF fire = "no" THEN o.alarm ELSE FALSE,
          inv |-> b.inv + 1, ext |-> b.ext + o.ext,
          aborted |-> fire = "outside"]
         : o \in { x \in clean_title_with_ai(title, b.alarm) :
                     /\ fire # "no" => x.alarm
                     /\ fire = "in_try" => x.kind = "return" } }

RECURSIVE TestLoop(_, _)
TestLoop(k, b) ==
  IF k > NumTestTitles \/ b.aborted THEN {b}
  ELSE UNION { TestLoop(k + 1, b2) :
                 b2 \in UNION { TestItem(b, k, f) : f \in TestFires } }

test_endpoint(entry) ==
  LET req == [NoRequest EXCEPT !.op = "test"]
      Finish(b) ==
        [alarm |-> b.alarm,
         last |->
           IF b.aborted
             THEN [req EXCEPT !.status = 500, !.fire = "outside",
                              !.inv = b.inv, !.ext = b.ext]
             ELSE [req EXCEPT !.status = 200, !.ai_available = AI_ENABLED,
                              !.inv = b.inv, !.ext = b.ext]]
  IN  IF entry
        THEN {[alarm |-> FALSE,
               last |-> [req EXCEPT !.status = 500, !.fire = "entry"]]}
        ELSE { Finish(b) :
                 b \in TestLoop(1, [alarm |-> alarm, inv |-> 0, ext |-> 0,
                                    aborted |-> FALSE]) }

\* a faulty variant of Test that takes a sample the AI answered as a proof
\* that the provider is back, and enables the AI
Test_reenabling ==
  /\ served < MaxRequests
  /\ \E entry \in BOOLEAN :
       /\ entry => alarm
       /\ \E r \in test_endpoint(entry) :
            /\ alarm' = r.alarm
            /\ last' = r.last
  /\ served' = served + 1
  /\ AI_ENABLED' = TRUE
  /\ UNCHANGED <<platform, cache, hits, misses, regex_of, calls, now,
                 deadline>>

Test ==
  /\ served < MaxRequests
  /\ \E entry \in BOOLEAN :
       /\ entry => alarm
       /\ \E r \in test_endpoint(entry) :
            /\ alarm' = r.alarm
            /\ last' = r.last
  /\ served' = served + 1
  /\ UNCHANGED <<AI_ENABLED, platform, cache, hits, misses, regex_of, calls,
                 now, deadline>>

(***************************************************************************)
(* GET /: the welcome page, with 'ai_status'.  A pending alarm that fires  *)
(* here leaves the handler.                                                *)
(***************************************************************************)
index(fire) ==
  LET req == [NoRequest EXCEPT !.op = "index"]
  IN  IF fire THEN [req EXCEPT !.status = 500, !.fire = "entry"]
      ELSE [req EXCEPT !.status = 200, !.ai_available = AI_ENABLED]

Index ==
  /\ served < MaxRequests
  /\ \E fire \in BOOLEAN :
       /\ fire => alarm
       /\ last' = index(fire)
       /\ alarm' = (alarm /\ ~fire)
  /\ served' = served + 1
  /\ UNCHANGED <<AI_ENABLED, platform, cache, hits, misses, regex_of, calls,
                 now, deadline>>

\* the pending alarm fires outside every call of clean_title_with_ai and
\* outside the handlers: TimeoutError is raised in the serving loop
StrayAlarm ==
  /\ alarm
  /\ deadline # None => deadline = Some(now)
  /\ alarm' = FALSE
  /\ deadline' = None
  /\ last' = [NoRequest EXCEPT !.op = "idle", !.fire = "idle"]
  /\ UNCHANGED <<AI_ENABLED, platform, cache, hits, misses, served, regex_of,
                 calls, now>>

Next == CleanTitle \/ CleanBatch \/ Health \/ Test \/ Index \/ StrayAlarm

Spec == Init /\ [][Next]_vars

(***************************************************************************)
(* Requests that overlap in time, seen at their lookups                    *)
(* cached_clean_title(title).  The lru_cache looks the title up and counts *)
(* a hit or a miss; on a miss it calls clean_title_with_ai with no lock    *)
(* held, and when the call returns it stores the result unless the title   *)
(* got an entry meanwhile.  signal.alarm is one timer of the process:      *)
(* arming it replaces the pending alarm, signal.alarm(0) cancels whatever  *)
(* is pending, and the handler raises TimeoutError in the code that runs   *)
(* when the timer is due.  On "worker" the lookups run on threads, where   *)
(* signal.signal raises ValueError and the call fails; on "main" they are  *)
(* interleaved on the main thread.  deadline is when the pending alarm is  *)
(* due.                                                                    *)
(***************************************************************************)

\* a faulty variant of StoreResult that inserts the result in every case
StoreResult_always(c, title, result) ==
  CacheInsert(c, title, result)

\* lines 33-36: what the lru_cache does with the result of a miss
StoreResult(c, title, result) ==
  IF CacheIndex(c, title) # 0 THEN c ELSE CacheInsert(c, title, result)

\* the titles of the overlapping lookups
ConcTitles == {TitleNoise, TitleMobile}

\* lines 33-36 and 47-54: a lookup begins (the lookups are numbered in the
\* order in which they begin)
BeginCall ==
  /\ AI_ENABLED
  /\ \E id \in Calls, title \in ConcTitles :
       LET i == CacheIndex(cache, title)
           began == [NoCall EXCEPT !.title = title, !.start = now, !.end = now]
       IN  /\ calls[id].pc = "idle"
           /\ \A other \in 1..(id - 1) : calls[other].pc # "idle"
           /\ IF i # 0
                THEN /\ cache' = CacheTouch(cache, i)
                     /\ hits' = hits + 1
                     /\ calls' = [calls EXCEPT ![id] =
                          [began EXCEPT !.pc = "done", !.how = "hit",
                                        !.value = cache[i].result]]
                     /\ UNCHANGED <<misses, alarm, deadline>>
                ELSE /\ misses' = misses + 1
                     /\ hits' = hits
                     /\ cache' = cache
                     /\ calls' = [calls EXCEPT ![id] =
                          [began EXCEPT !.pc = "flight"]]
                     /\ IF platform = "main"
                          THEN /\ alarm' = TRUE
                               /\ deadline' = Some(now + ALARM_SECS)
                          ELSE UNCHANGED <<alarm, deadline>>
  /\ UNCHANGED <<AI_ENABLED, platform, served, last, regex_of, now>>

\* lines 79-90: the provider answers; the alarm is cancelled
ProviderReturns ==
  /\ platform # "worker"
  /\ \E id \in Calls, x \in RawTexts :
       /\ calls[id].pc = "flight"
       /\ calls' = [calls EXCEPT ![id].pc = "done", ![id].end = now,
                                 ![id].how = "ok",
                                 ![id].value = Some(PostProcess(x))]
       /\ cache' = StoreResult(cache, calls[id].title, Some(PostProcess(x)))
       /\ IF platform = "main"
            THEN alarm' = FALSE /\ deadline' = None
            ELSE UNCHANGED <<alarm, deadline>>
  /\ UNCHANGED <<AI_ENABLED, platform, hits, misses, served, last, regex_of,
                 now>>

\* lines 95-97: the provider raises, or on a thread signal.signal does; the
\* alarm stays as it is
ProviderRaises ==
  /\ \E id \in Calls :
       /\ calls[id].pc = "flight"
       /\ calls' = [calls EXCEPT ![id].pc = "done", ![id].end = now,
                                 ![id].how = "error"]
       /\ cache' = StoreResult(cache, calls[id].title, None)
  /\ UNCHANGED <<AI_ENABLED, platform, hits, misses, alarm, served, last,
                 regex_of, now, deadline>>

\* lines 38-40 and 92-94: the alarm is due while a call waits for the
\* provider, and TimeoutError is raised in that call, whichever call armed it
AlarmInCall ==
  /\ alarm
  /\ deadline = Some(now)
  /\ \E id \in Calls :
       /\ calls[id].pc = "flight"
       /\ calls' = [calls EXCEPT ![id].pc = "done", ![id].end = now,
                                 ![id].how = "timeout"]
       /\ cache' = StoreResult(cache, calls[id].title, None)
  /\ alarm' = FALSE
  /\ deadline' = None
  /\ UNCHANGED <<AI_ENABLED, platform, hits, misses, served, last, regex_of,
                 now>>

\* time passes; an alarm that is due fires first
Tick ==
  /\ now < MaxTime
  /\ alarm => deadline # Some(now)
  /\ now' = now + 1
  /\ UNCHANGED <<AI_ENABLED, platform, cache, hits, misses, alarm, served,
                 last, regex_of, calls, deadline>>

NextConc ==
  BeginCall \/ ProviderReturns \/ ProviderRaises \/ AlarmInCall
    \/ StrayAlarm \/ Tick

SpecConc == Init /\ [][NextConc]_vars

(***************************************************************************)
(* The claims of the specification, C1 to C10.                             *)
(***************************************************************************)

\* C1 (totality): every /clean-title request, whatever its title (the empty
\* string included) and whatever the AI call does, is answered with a
\* CleaningResult (status 200) whose cleaned is a string and whose method is
\* ai, regex or none; no request ends in an error answer
C1_Totality ==
  last.op = "clean" =>
    /\ last.status = 200
    /\ last.cleaned # None
    /\ last.method \in {"ai", "regex", "none"}
    /\ ~last.error \/ last.method = "none"

\* C2 (no cache on failure): a request whose AI completion failed (timeout or
\* provider error) leaves no entry for its title in the cache, and the next
\* request for the same title calls clean_title_with_ai again
C2_NoCacheOnFailure ==
  [][/\ (last'.op = "clean" /\ last'.how \in {"timeout", "error"})
          => last'.title \notin CacheKeys(cache')
     /\ (/\ last.op = "clean" /\ last.how \in {"timeout", "error"}
         /\ last'.op = "clean" /\ last'.looked /\ last'.title = last.title)
          => last'.inv = 1]_vars

\* C3 (fallback on timeout): a /clean-title request whose lookup returned
\* after more than the caller's budget is answered with method regex
C3_FallbackOnTimeout ==
  (last.op = "clean" /\ last.over) => last.method = "regex"

C5_FallbackOnDisable ==
  (~AI_ENABLED /\ last.op = "clean" /\ last.title # <<>>) =>
    /\ last.status = 200
    /\ last.method = "regex"
    /\ last.confidence = 75
    /\ last.cleaned = Some(regex_of[last.title])
    /\ last.inv = 0 /\ last.ext = 0
    /\ hits = 0 /\ misses = 0 /\ cache = <<>>

C5_Witness ==
  /\ ~AI_ENABLED
  /\ last.op = "clean" /\ last.title = TitleMobile
  /\ last.method = "regex" /\ last.cleaned = Some(regex_of[TitleMobile])

C7_BatchIsolation ==
  last.op = "batch" =>
    /\ last.status = 200
    /\ Len(last.results) = Len(last.titles)
    /\ \A i \in 1..Len(last.titles) :
         /\ last.results[i].original = last.titles[i]
         /\ i \in last.failed
              => last.results[i].cleaned = regex_of[last.titles[i]]

\* C8 (bounded cache): the cache never holds more than maxsize entries, no
\* title twice, and /health reports its size; a /clean-title request that
\* inserts a new title into a full cache drops exactly one entry, the least
\* recently used one
C8_BoundedCache ==
  /\ [](/\ Len(cache) <= maxsize
        /\ Cardinality(CacheKeys(cache)) = Len(cache)
        /\ (last.op = "health" /\ last.status = 200)
             => last.cache_size = Len(cache) /\ last.cache_size <= maxsize)
  /\ [][(/\ last'.op = "clean"
         /\ Len(cache) = maxsize
         /\ last'.title \notin CacheKeys(cache)
         /\ last'.title \in CacheKeys(cache'))
          => /\ Len(cache') = maxsize
             /\ Cardinality(CacheKeys(cache) \ CacheKeys(cache')) = 1
             /\ CacheKeys(cache')
                  = (CacheKeys(cache) \ {cache[1].key}) \cup {last'.title}
             /\ last'.evicted = 1]_vars

C8_Witness ==
  /\ last.op = "clean" /\ last.evicted = 1
  /\ Len(cache) = maxsize
  /\ last.title \in CacheKeys(cache)

\* C9 (result tuple): every CleaningResult of /clean-title is (ai, 0.95, the
\* string the lookup returned), (regex, 0.75, clean_title_with_regex(title))
\* or (none, 0.5, the title as it came); method none is answered only after
\* a fault was raised in the handler, and carries its description
C9_ResultTuple ==
  (last.op = "clean" /\ last.status = 200) =>
    /\ last.original = Some(last.title)
    /\ \/ /\ last.method = "ai" /\ last.confidence = 95
          /\ last.cleaned = last.value /\ Truthy(last.value)
          /\ ~last.error
       \/ /\ last.method = "regex" /\ last.confidence = 75
          /\ last.cleaned = Some(regex_of[last.title])
          /\ ~last.error
       \/ /\ last.method = "none" /\ last.confidence = 50
          /\ last.cleaned = Some(last.title)
          /\ last.error /\ last.fire \in {"before_try", "tail"}

C9_Witness ==
  /\ last.op = "clean" /\ last.status = 200
  /\ last.method = "none" /\ last.confidence = 50
  /\ last.cleaned = Some(TitleMobile)

\* C10 (no retries): a /clean-title request calls the provider at most once,
\* and when that attempt fails it is answered by the regex cleaner
C10_NoRetries ==
  last.op = "clean" =>
    /\ last.ext <= 1 /\ last.inv <= 1
    /\ last.how \in {"timeout", "error"} => last.method = "regex"

\* C11 (idempotent pattern extraction): the regex cleaner returns a title
\* that is clean already (brand, model, RAM, storage: "Samsung Galaxy A15 8GB
\* 256GB") unchanged, so a request for it that the regex cleaner answers has
\* cleaned = the title
C11_IdempotentExtraction ==
  (last.op = "clean" /\ last.method = "regex" /\ last.title = TitleCleaned)
    => last.cleaned = Some(TitleCleaned)

\* C12 (per-call deadline independence): on the main thread every call that
\* waits for the provider has its own alarm pending, due 3 time units after
\* the call began, whatever the other calls do; so no call waits longer than
\* 3 time units, and a call is timed out at its own deadline and not before
C12_DeadlineIndependence ==
  platform = "main" =>
    \A id \in Calls :
      /\ calls[id].pc = "flight"
           => /\ alarm
              /\ deadline = Some(calls[id].start + ALARM_SECS)
              /\ now - calls[id].start <= ALARM_SECS
      /\ calls[id].pc = "done"
           => /\ calls[id].end - calls[id].start <= ALARM_SECS
              /\ calls[id].how = "timeout"
                   => calls[id].end = calls[id].start + ALARM_SECS

\* the lookups that have begun
Begun == { id \in Calls : calls[id].pc # "idle" }

\* C13 (single external call under concurrency), as stated: when two lookups
\* of the same title, not cached before, overlap, the counters end with one
\* miss and one hit and clean_title_with_ai is called once
C13_SingleCall ==
  (Begun = {1, 2} /\ calls[1].title = calls[2].title) =>
    /\ misses = 1 /\ hits = 1
    /\ calls[1].how # "hit" /\ calls[2].how = "hit"

\* C13, amended: under every interleaving hits + misses is the number of
\* lookups and a title has at most one entry in the cache; a lookup that
\* begins after an earlier lookup of its title has ended is a hit, and a hit
\* returns the result of a lookup of its title that missed and had ended by
\* then; so a lookup that begins while no lookup of its title has ended
\* misses as well and calls clean_title_with_ai itself
C13_CountersConsistent ==
  /\ hits + misses = Cardinality(Begun)
  /\ hits = Cardinality({ id \in Begun : calls[id].how = "hit" })
  /\ Cardinality(CacheKeys(cache)) = Len(cache)
  /\ \A b \in Begun :
       LET Earlier(strict) ==
             { a \in Begun \ {b} :
                 /\ calls[a].title = calls[b].title
                 /\ calls[a].pc = "done"
                 /\ IF strict THEN calls[a].end < calls[b].start
                    ELSE calls[a].end <= calls[b].start }
       IN  /\ Earlier(TRUE) # {} => calls[b].how = "hit"
           /\ calls[b].how = "hit"
                => \E a \in Earlier(FALSE) :
                     /\ calls[a].how # "hit"
                     /\ calls[a].value = calls[b].value

\* two lookups of one title overlapped and both missed; both are done and
\* the title has its one entry
C13_Witness ==
  /\ Begun = {1, 2}
  /\ calls[1].title = calls[2].title
  /\ calls[1].pc = "done" /\ calls[2].pc = "done"
  /\ misses = 2 /\ hits = 0
  /\ Len(cache) = 1

\* C14 (the enabled flag is write-once): no request of any endpoint changes
\* AI_ENABLED; and while it is false no request calls clean_title_with_ai or
\* the provider, looks the cache up or arms the alarm
C14_FlagWriteOnce ==
  /\ [][AI_ENABLED' = AI_ENABLED]_vars
  /\ [](~AI_ENABLED =>
          /\ last.ext = 0 /\ last.inv = 0
          /\ hits = 0 /\ misses = 0 /\ cache = <<>>
          /\ ~alarm
          /\ last.op \in {"health", "test", "index"} /\ last.status = 200
               => ~last.ai_available)

\* two requests were served with the AI disabled, the second one the self
\* test
C14_Witness ==
  /\ ~AI_ENABLED
  /\ served = MaxRequests
  /\ last.op = "test" /\ last.status = 200 /\ ~last.ai_available

\* C15 (the self test goes past the cache): a /test request leaves the
\* cache and its counters as they are, and with the AI enabled it calls
\* clean_title_with_ai, and through it the provider, once for every sample
\* title
C15_SelfTestBypassesCache ==
  [][last'.op = "test" =>
       /\ cache' = cache /\ hits' = hits /\ misses' = misses
       /\ AI_ENABLED => /\ last'.inv = NumTestTitles
                        /\ last'.ext = NumTestTitles]_vars

\* C16 (deadline cleanup): no alarm is pending once a request is answered,
\* and TimeoutError is raised nowhere but inside the provider call of
\* clean_title_with_ai: not in the rest of a handler, not in a later request,
\* not between requests
C16_DeadlineCleanup ==
  /\ ~alarm
  /\ last.fire = "no"

\* C17 (over-budget results are memoized), as stated: when the AI returns a
\* string that is not empty after the budget, the request is answered with
\* method regex and the string is in the cache; the next /clean-title
\* request for the title with the same budget is a hit, calls no provider and
\* is answered with method ai
C17_OverBudgetMemoized ==
  [][/\ (/\ last'.op = "clean" /\ last'.how = "ok" /\ last'.over
         /\ Truthy(last'.value))
          => /\ last'.method = "regex"
             /\ \E i \in 1..Len(cache') :
                  cache'[i] = [key |-> last'.title, result |-> last'.value]
     /\ (/\ last.op = "clean" /\ last.how = "ok" /\ last.over
         /\ Truthy(last.value)
         /\ last'.op = "clean" /\ last'.title = last.title
         /\ last'.timeout = last.timeout)
          => /\ last'.how = "hit" /\ last'.ext = 0
             /\ last'.method = "ai" /\ last'.cleaned = last.value]_vars

\* C17, amended: as C17, for a next request whose lookup is within its
\* budget; when the hit is over the budget too, the request is a hit that
\* calls no provider and is answered with method regex
C17_OverBudgetMemoizedWithinBudget ==
  [][/\ (/\ last'.op = "clean" /\ last'.how = "ok" /\ last'.over
         /\ Truthy(last'.value))
          => /\ last'.method = "regex"
             /\ \E i \in 1..Len(cache') :
                  cache'[i] = [key |-> last'.title, result |-> last'.value]
     /\ (/\ last.op = "clean" /\ last.how = "ok" /\ last.over
         /\ Truthy(last.value)
         /\ last'.op = "clean" /\ last'.title = last.title
         /\ last'.timeout = last.timeout)
          => /\ last'.how = "hit" /\ last'.ext = 0 /\ last'.inv = 0
             /\ last'.value = last.value
             /\ ~last'.over
                  => last'.method = "ai" /\ last'.cleaned = last.value
             /\ last'.over => last'.method = "regex"]_vars

\* the second of two /clean-title requests for a title with one budget: the
\* first was over budget, the second is a hit within it, answered by the AI
\* text with no call of the provider
C17_Witness ==
  /\ served = 2 /\ hits = 1 /\ misses = 1
  /\ last.op = "clean" /\ last.how = "hit" /\ ~last.over
  /\ last.timeout = 1
  /\ last.method = "ai" /\ last.ext = 0

====
